---- MODULE Spec2Model ----
(***************************************************************************)
(* Win32 STL String Utility Functions (StringUtils.h, namespace win32).    *)
(*                                                                         *)
(* Every call is modelled as a thread of control that walks through the    *)
(* statements of the called function; the label of a step is the function  *)
(* name followed by the source line of the statement it executes.  Text is *)
(* a sequence of UTF-16 code units (wchar_t), so L'0' is 48 and L'A' 65.   *)
(* TLC's integers are 32-bit and signed, so a DWORD is kept as two 16-bit   *)
(* limbs [hi, lo] with the value hi * 2^16 + lo, and the shift and mask    *)
(* that FormatDword applies are computed on that representation.           *)
(***************************************************************************)
EXTENDS Integers, Sequences, FiniteSets, TLC

VARIABLES
    pc,         \* pc[t]: the statement thread t executes next
    op,         \* op[t]: the public function thread t called
    arg,        \* arg[t]: the argument of that call
    status,     \* status[t]: "none", "running", "returned" or "fatal"
    ret,        \* ret[t]: the std::wstring the call returned
    hexDigits,  \* hexDigits[f]: the local array of FormatByte / FormatWord
    word,       \* word[t]: parameter w of the running FormatWord
    retAddr,    \* retAddr[t]: where the running FormatWord returns to
    dword,      \* dword[t]: parameter dw of the running FormatDword
    pending,    \* pending[t]: operands of line 137 not yet evaluated
    strHigh,    \* strHigh[t]: temporary FormatWord(highWord) of line 137
    strLow,     \* strLow[t]: temporary FormatWord(lowWord) of line 137
    length,     \* length[t]: local 'length' of StringPrintf
    result,     \* result[f]: local 'result' of StringPrintf
    failed,     \* failed[t]: a CRT primitive reported a failure (-1)
    buffer,     \* buffer[t]: local 'buffer' of LoadStringResource
    len,        \* len[t]: local 'len' of LoadStringResource
    table,      \* the string table the module was built from
    section     \* the module's string resource section, as laid out in memory

vars == <<pc, op, arg, status, ret, hexDigits, word, retAddr, dword, pending,
          strHigh, strLow, length, result, failed, buffer, len, table, section>>

hexVars  == <<hexDigits, word, retAddr, dword, pending, strHigh, strLow>>
fmtVars  == <<length, result, failed>>
resVars  == <<buffer, len>>
platVars == <<table, section>>

-----------------------------------------------------------------------------
(* Bounds of the model *)

\* Number of concurrently calling threads.
NumThreads == 2
\* Longest format template, in code units.
MaxFormatLen == 3
\* Number of strings in the module's string table.
NumStrings == 2

-----------------------------------------------------------------------------
(* Machine types and integer operations *)

BYTE == 0 .. 255
WORD == 0 .. 65535

\* x >> n on a non-negative value
ShiftRight(x, n) == x \div (2 ^ n)

\* x & y on non-negative values
RECURSIVE BitAnd(_, _)
BitAnd(x, y) ==
    IF x = 0 \/ y = 0 THEN 0
    ELSE (x % 2) * (y % 2) + 2 * BitAnd(x \div 2, y \div 2)

\* static_cast<BYTE>, and the implicit conversion of an int argument to BYTE
ToByte(x) == x % 256
\* the implicit conversion of an int to wchar_t (16 bits on Win32)
ToWChar(x) == x % 65536

\* dw >> n for a DWORD kept as limbs, 0 <= n <= 16
DwShiftRight(dw, n) ==
    [hi |-> ShiftRight(dw.hi, n),
     lo |-> ShiftRight(dw.lo, n) + (dw.hi % (2 ^ n)) * (2 ^ (16 - n))]

\* dw & mask for DWORDs kept as limbs
DwBitAnd(dw, mask) ==
    [hi |-> BitAnd(dw.hi, mask.hi), lo |-> BitAnd(dw.lo, mask.lo)]

\* the implicit conversion DWORD -> WORD keeps the low 16 bits
DwToWord(dw) == dw.lo

HResultToDwordNoSign(hr) ==
    [hi |-> (hr \div 65536) % 32768, lo |-> hr % 65536]

\* the implicit conversion HRESULT (signed long) -> DWORD at the call of
\* FormatDword: the value modulo 2^32
HResultToDword(hr) ==
    [hi |-> (hr \div 65536) % 65536, lo |-> hr % 65536]

\* std::wstring(ptr, count): count code units starting at ptr
WString(mem, first, count) == SubSeq(mem, first, first + count - 1)

-----------------------------------------------------------------------------
(* detail::FormatLowNibble and the locals of the hex formatters *)

FormatLowNibbleLower(b) ==
    LET lowNibble == BitAnd(b, 15)
    IN  IF lowNibble >= 0 /\ lowNibble < 10
        THEN ToWChar(48 + lowNibble)
        ELSE ToWChar(97 + (lowNibble - 10))

FormatLowNibble(b) ==
    LET lowNibble == BitAnd(b, 15)
    IN  IF lowNibble >= 0 /\ lowNibble < 10
        THEN ToWChar(48 + lowNibble)
        ELSE ToWChar(65 + (lowNibble - 10))

\* FormatByte as a function of its argument
FormatByte(b) ==
    LET d0 == FormatLowNibble(ToByte(ShiftRight(b, 4)))
        d1 == FormatLowNibble(b)
    IN  WString(<<d0, d1>>, 1, 2)

HighByteSwapped(w) == ToByte(BitAnd(w, 255))

\* const BYTE highByte = static_cast<BYTE>(w >> 8);
HighByte(w) == ToByte(ShiftRight(w, 8))

\* const BYTE lowByte = static_cast<BYTE>(w & 0x00FF);
LowByte(w) == ToByte(BitAnd(w, 255))

\* FormatWord as a function of its argument
FormatWord(w) ==
    LET d0 == FormatLowNibble(ToByte(ShiftRight(HighByte(w), 4)))
        d1 == FormatLowNibble(HighByte(w))
        d2 == FormatLowNibble(ToByte(ShiftRight(LowByte(w), 4)))
        d3 == FormatLowNibble(LowByte(w))
    IN  WString(<<d0, d1, d2, d3>>, 1, 4)

\* const WORD lowWord = dw & 0x0000FFFF;
LowWord(dw) == DwToWord(DwBitAnd(dw, [hi |-> 0, lo |-> 65535]))

\* const WORD highWord = dw >> 16;
HighWord(dw) == DwToWord(DwShiftRight(dw, 16))

\* FormatDword as a function of its argument
FormatDword(dw) == FormatWord(HighWord(dw)) \o FormatWord(LowWord(dw))

\* FormatHResult as a function of its argument
FormatHResult(hr) == FormatDword(HResultToDword(hr))

-----------------------------------------------------------------------------
(* Storage *)

FrameOfStatic(t) == 1

\* The locals of a call (hexDigits, result) have automatic storage: every
\* call, hence every thread, has its own.
FrameOf(t) == t

\* What an uninitialised wchar_t may hold when a function is entered.
JunkUnits == {0, 52428}

Threads == DOMAIN pc

Alive == \A t \in Threads : status[t] # "fatal"

-----------------------------------------------------------------------------
(* Initial states *)

\* The string table as the resource compiler lays it out: every entry is its
\* length followed by its code units, with no terminator.
RECURSIVE EncodeTable(_)
EncodeTable(tbl) ==
    IF tbl = <<>> THEN <<>>
    ELSE <<Len(Head(tbl))>> \o Head(tbl) \o EncodeTable(Tail(tbl))

InitCalls(T) ==
    /\ pc = [t \in T |-> "idle"]
    /\ op = [t \in T |-> "none"]
    /\ arg = [t \in T |-> 0]
    /\ status = [t \in T |-> "none"]
    /\ ret = [t \in T |-> <<>>]
    /\ hexDigits = [t \in T |-> <<>>]
    /\ word = [t \in T |-> 0]
    /\ retAddr = [t \in T |-> "top"]
    /\ dword = [t \in T |-> [hi |-> 0, lo |-> 0]]
    /\ pending = [t \in T |-> {}]
    /\ strHigh = [t \in T |-> <<>>]
    /\ strLow = [t \in T |-> <<>>]
    /\ length = [t \in T |-> 0]
    /\ result = [t \in T |-> <<>>]
    /\ failed = [t \in T |-> FALSE]
    /\ buffer = [t \in T |-> 0]
    /\ len = [t \in T |-> 0]

InitPlatform(tables) ==
    /\ table \in tables
    /\ section = EncodeTable(table)

\* A public function is entered by thread t.
Enter(t, o, a, label) ==
    /\ Alive
    /\ pc[t] = "idle"
    /\ pc' = [pc EXCEPT ![t] = label]
    /\ op' = [op EXCEPT ![t] = o]
    /\ arg' = [arg EXCEPT ![t] = a]
    /\ status' = [status EXCEPT ![t] = "running"]
    /\ UNCHANGED ret

\* A public function returns v to the caller of thread t.
ReturnToCaller(t, v) ==
    /\ pc' = [pc EXCEPT ![t] = "done"]
    /\ status' = [status EXCEPT ![t] = "returned"]
    /\ ret' = [ret EXCEPT ![t] = v]
    /\ UNCHANGED <<op, arg>>

\* A statement of thread t that moves on to the statement at 'label'.
Goto(t, label) ==
    /\ pc' = [pc EXCEPT ![t] = label]
    /\ UNCHANGED <<op, arg, status, ret>>

At(t, label) == Alive /\ pc[t] = label

-----------------------------------------------------------------------------
(* FormatByte, lines 106-113 *)

CallFormatByte(t, inputs, junks) ==
    /\ At(t, "idle")
    /\ \E b \in inputs, junk \in junks :
        /\ Enter(t, "FormatByte", b, "FormatByte_109")
        /\ hexDigits' = [hexDigits EXCEPT ![FrameOf(t)] = <<junk, junk>>]
        /\ UNCHANGED <<word, retAddr, dword, pending, strHigh, strLow>>
        /\ UNCHANGED <<fmtVars, resVars, platVars>>

\* hexDigits[0] = detail::FormatLowNibble((b >> 4));
FormatByte_109(t) ==
    /\ At(t, "FormatByte_109")
    /\ hexDigits' = [hexDigits EXCEPT ![FrameOf(t)][1] =
                        FormatLowNibble(ToByte(ShiftRight(arg[t], 4)))]
    /\ Goto(t, "FormatByte_110")
    /\ UNCHANGED <<word, retAddr, dword, pending, strHigh, strLow>>
    /\ UNCHANGED <<fmtVars, resVars, platVars>>

\* hexDigits[1] = detail::FormatLowNibble(b);
FormatByte_110(t) ==
    /\ At(t, "FormatByte_110")
    /\ hexDigits' = [hexDigits EXCEPT ![FrameOf(t)][2] = FormatLowNibble(arg[t])]
    /\ Goto(t, "FormatByte_112")
    /\ UNCHANGED <<word, retAddr, dword, pending, strHigh, strLow>>
    /\ UNCHANGED <<fmtVars, resVars, platVars>>

\* return std::wstring(hexDigits, _countof(hexDigits));
FormatByte_112(t) ==
    /\ At(t, "FormatByte_112")
    /\ ReturnToCaller(t, WString(hexDigits[FrameOf(t)], 1, 2))
    /\ UNCHANGED <<hexVars, fmtVars, resVars, platVars>>

-----------------------------------------------------------------------------
(* FormatWord, lines 116-129 *)

\* FormatWord(w) is entered; it returns to 'ra'.
EnterFormatWord(t, w, ra, junk) ==
    /\ word' = [word EXCEPT ![t] = w]
    /\ retAddr' = [retAddr EXCEPT ![t] = ra]
    /\ hexDigits' = [hexDigits EXCEPT ![FrameOf(t)] = <<junk, junk, junk, junk>>]

CallFormatWord(t, inputs, junks) ==
    /\ At(t, "idle")
    /\ \E w \in inputs, junk \in junks :
        /\ Enter(t, "FormatWord", w, "FormatWord_121")
        /\ EnterFormatWord(t, w, "top", junk)
        /\ UNCHANGED <<dword, pending, strHigh, strLow>>
        /\ UNCHANGED <<fmtVars, resVars, platVars>>

\* One of the four assignments to hexDigits.
FormatWordDigit(t, label, i, digit, next) ==
    /\ At(t, label)
    /\ hexDigits' = [hexDigits EXCEPT ![FrameOf(t)][i] = digit]
    /\ Goto(t, next)
    /\ UNCHANGED <<word, retAddr, dword, pending, strHigh, strLow>>
    /\ UNCHANGED <<fmtVars, resVars, platVars>>

\* hexDigits[0] = detail::FormatLowNibble((highByte >> 4));
FormatWord_121(t) ==
    FormatWordDigit(t, "FormatWord_121", 1,
        FormatLowNibble(ToByte(ShiftRight(HighByte(word[t]), 4))), "FormatWord_122")

\* hexDigits[1] = detail::FormatLowNibble(highByte);
FormatWord_122(t) ==
    FormatWordDigit(t, "FormatWord_122", 2,
        FormatLowNibble(HighByte(word[t])), "FormatWord_125")

\* hexDigits[2] = detail::FormatLowNibble((lowByte >> 4));
FormatWord_125(t) ==
    FormatWordDigit(t, "FormatWord_125", 3,
        FormatLowNibble(ToByte(ShiftRight(LowByte(word[t]), 4))), "FormatWord_126")

\* hexDigits[3] = detail::FormatLowNibble(lowByte);
FormatWord_126(t) ==
    FormatWordDigit(t, "FormatWord_126", 4,
        FormatLowNibble(LowByte(word[t])), "FormatWord_128")

\* return std::wstring(hexDigits, _countof(hexDigits));
\* to the caller of the public function, or into a temporary of line 137
FormatWord_128(t) ==
    /\ At(t, "FormatWord_128")
    /\ LET v == WString(hexDigits[FrameOf(t)], 1, 4)
       IN  CASE retAddr[t] = "top" ->
                  /\ ReturnToCaller(t, v)
                  /\ UNCHANGED <<pending, strHigh, strLow>>
             [] retAddr[t] = "FormatDword_high" ->
                  /\ Goto(t, "FormatDword_137")
                  /\ strHigh' = [strHigh EXCEPT ![t] = v]
                  /\ pending' = [pending EXCEPT ![t] = @ \ {"high"}]
                  /\ UNCHANGED strLow
             [] retAddr[t] = "FormatDword_low" ->
                  /\ Goto(t, "FormatDword_137")
                  /\ strLow' = [strLow EXCEPT ![t] = v]
                  /\ pending' = [pending EXCEPT ![t] = @ \ {"low"}]
                  /\ UNCHANGED strHigh
    /\ UNCHANGED <<hexDigits, word, retAddr, dword>>
    /\ UNCHANGED <<fmtVars, resVars, platVars>>

-----------------------------------------------------------------------------
(* FormatDword, lines 132-138, and FormatHResult, lines 141-144 *)

\* FormatDword(dw) is entered: both operands of line 137 are to be evaluated.
EnterFormatDword(t, dw) ==
    /\ dword' = [dword EXCEPT ![t] = dw]
    /\ pending' = [pending EXCEPT ![t] = {"high", "low"}]
    /\ strHigh' = [strHigh EXCEPT ![t] = <<>>]
    /\ strLow' = [strLow EXCEPT ![t] = <<>>]

CallFormatDword(t, inputs) ==
    /\ At(t, "idle")
    /\ \E dw \in inputs :
        /\ Enter(t, "FormatDword", dw, "FormatDword_137")
        /\ EnterFormatDword(t, dw)
        /\ UNCHANGED <<hexDigits, word, retAddr>>
        /\ UNCHANGED <<fmtVars, resVars, platVars>>

\* return FormatDword(hr);  the HRESULT is converted to the DWORD parameter and
\* the callee's result is returned as it is.
CallFormatHResult(t, inputs) ==
    /\ At(t, "idle")
    /\ \E hr \in inputs :
        /\ Enter(t, "FormatHResult", hr, "FormatDword_137")
        /\ EnterFormatDword(t, HResultToDword(hr))
        /\ UNCHANGED <<hexDigits, word, retAddr>>
        /\ UNCHANGED <<fmtVars, resVars, platVars>>

\* FormatWord(highWord) + FormatWord(lowWord): the two calls are evaluated in
\* an order the language leaves to the compiler.
FormatDword_137_operand(t, junks) ==
    /\ At(t, "FormatDword_137")
    /\ \E k \in pending[t], junk \in junks :
          IF k = "high"
          THEN EnterFormatWord(t, HighWord(dword[t]), "FormatDword_high", junk)
          ELSE EnterFormatWord(t, LowWord(dword[t]), "FormatDword_low", junk)
    /\ Goto(t, "FormatWord_121")
    /\ UNCHANGED <<dword, pending, strHigh, strLow>>
    /\ UNCHANGED <<fmtVars, resVars, platVars>>

FormatDword_137_concatSwapped(t) ==
    /\ At(t, "FormatDword_137")
    /\ pending[t] = {}
    /\ ReturnToCaller(t, strLow[t] \o strHigh[t])
    /\ UNCHANGED <<hexVars, fmtVars, resVars, platVars>>

\* ... and then concatenated, the high word's text first.
FormatDword_137_concat(t) ==
    /\ At(t, "FormatDword_137")
    /\ pending[t] = {}
    /\ ReturnToCaller(t, strHigh[t] \o strLow[t])
    /\ UNCHANGED <<hexVars, fmtVars, resVars, platVars>>

-----------------------------------------------------------------------------
(* The CRT's formatting primitives, as StringPrintf uses them *)

\* The code units a template of the model is made of: '%', 's' and '!'.
\* "%s" substitutes the next argument (a string), "%%" is a percent sign,
\* any other unit after '%' (and a '%' that ends the template) is malformed.
FormatUnits == {37, 115, 33}

\* The rendering of 'format' with 'args': whether the template is well formed
\* and, when it is, the text.
RECURSIVE Render(_, _)
Render(format, args) ==
    IF format = <<>> THEN [ok |-> TRUE, text |-> <<>>]
    ELSE IF Head(format) # 37
    THEN LET r == Render(Tail(format), args)
         IN  [ok |-> r.ok, text |-> <<Head(format)>> \o r.text]
    ELSE IF Len(format) = 1 THEN [ok |-> FALSE, text |-> <<>>]
    ELSE IF format[2] = 37
    THEN LET r == Render(Tail(Tail(format)), args)
         IN  [ok |-> r.ok, text |-> <<37>> \o r.text]
    ELSE IF format[2] = 115
    THEN LET r == Render(Tail(Tail(format)), Tail(args))
         IN  [ok |-> r.ok, text |-> Head(args) \o r.text]
    ELSE [ok |-> FALSE, text |-> <<>>]

\* The number of arguments a template consumes.
RECURSIVE NumConversions(_)
NumConversions(format) ==
    IF format = <<>> THEN 0
    ELSE IF Head(format) # 37 THEN NumConversions(Tail(format))
    ELSE IF Len(format) = 1 THEN 0
    ELSE IF format[2] = 37 THEN NumConversions(Tail(Tail(format)))
    ELSE IF format[2] = 115 THEN 1 + NumConversions(Tail(Tail(format)))
    ELSE 0

\* _vscwprintf(format, args): the number of code units of the rendering, the
\* terminator not counted, or -1 when the template is rejected.
VscwPrintf(format, args) ==
    LET r == Render(format, args)
    IN  IF r.ok THEN Len(r.text) ELSE -1

Min(a, b) == IF a < b THEN a ELSE b

\* _vsnwprintf_s(dest, size, _TRUNCATE, format, args): what it leaves in dest
\* and what it returns.  As much of the rendering as fits in size - 1 units
\* is written, then the terminator; a size of 0 and a rejected template are
\* invalid parameters.
VsnwPrintfS(dest, size, format, args) ==
    LET r == Render(format, args)
        n == Min(Len(r.text), size - 1)
    IN  IF size <= 0 THEN [dest |-> dest, rc |-> -1, invalid |-> TRUE]
        ELSE IF ~r.ok
        THEN [dest |-> <<0>> \o SubSeq(dest, 2, Len(dest)),
              rc |-> -1, invalid |-> TRUE]
        ELSE [dest |-> SubSeq(r.text, 1, n) \o <<0>> \o SubSeq(dest, n + 2, Len(dest)),
              rc |-> IF Len(r.text) > size - 1 THEN -1 ELSE Len(r.text),
              invalid |-> FALSE]

\* What a std::wstring may appear to hold after pop_back() on an empty one.
GarbageStrings == {<<>>, <<52428>>, <<0, 52428>>}

-----------------------------------------------------------------------------
(* StringPrintf, lines 168-191 *)

\* The CRT's invalid parameter handler ends the process (its default).
Terminate(t) ==
    /\ pc' = [pc EXCEPT ![t] = "terminated"]
    /\ status' = [status EXCEPT ![t] = "fatal"]
    /\ UNCHANGED <<op, arg, ret>>

CallStringPrintf(t, inputs) ==
    /\ At(t, "idle")
    /\ \E a \in inputs :
        /\ Enter(t, "StringPrintf", a, "StringPrintf_174")
        /\ UNCHANGED <<hexVars, fmtVars, resVars, platVars>>

LengthWithoutTerminator(measured) == measured

\* const int length = _vscwprintf(format, args) + 1; // +1 for terminating NUL
LengthWithTerminator(measured) == measured + 1

\* Get result string length.  A rejected template invokes the invalid
\* parameter handler: the process ends there, or the handler returns and the
\* primitive returns -1, which the code does not test.
StringPrintf_174(t) ==
    /\ At(t, "StringPrintf_174")
    /\ LET measured == VscwPrintf(arg[t].format, arg[t].args)
       IN  \/ /\ measured >= 0
              /\ length' = [length EXCEPT ![t] = LengthWithTerminator(measured)]
              /\ Goto(t, "StringPrintf_179")
              /\ UNCHANGED failed
           \/ /\ measured < 0
              /\ length' = [length EXCEPT ![t] = LengthWithTerminator(measured)]
              /\ failed' = [failed EXCEPT ![t] = TRUE]
              /\ Goto(t, "StringPrintf_179")
           \/ /\ measured < 0
              /\ failed' = [failed EXCEPT ![t] = TRUE]
              /\ Terminate(t)
              /\ UNCHANGED length
    /\ UNCHANGED <<result, hexVars, resVars, platVars>>

\* result.resize(length);
StringPrintf_179(t) ==
    /\ At(t, "StringPrintf_179")
    /\ result' = [result EXCEPT ![FrameOf(t)] = [i \in 1 .. length[t] |-> 0]]
    /\ Goto(t, "StringPrintf_183")
    /\ UNCHANGED <<length, failed, hexVars, resVars, platVars>>

\* _vsnwprintf_s(&result[0], length, _TRUNCATE, format, args);
\* the value it returns is not tested either.
StringPrintf_183(t) ==
    /\ At(t, "StringPrintf_183")
    /\ LET w == VsnwPrintfS(result[FrameOf(t)], length[t],
                            arg[t].format, arg[t].args)
       IN  \/ /\ result' = [result EXCEPT ![FrameOf(t)] = w.dest]
              /\ failed' = [failed EXCEPT ![t] = @ \/ w.rc < 0]
              /\ Goto(t, "StringPrintf_188")
           \/ /\ w.invalid
              /\ failed' = [failed EXCEPT ![t] = TRUE]
              /\ Terminate(t)
              /\ UNCHANGED result
    /\ UNCHANGED <<length, hexVars, resVars, platVars>>

StringPrintf_188_NoPop(t) ==
    /\ At(t, "StringPrintf_188")
    /\ Goto(t, "StringPrintf_190")
    /\ UNCHANGED <<result, length, failed, hexVars, resVars, platVars>>

\* result.pop_back();  on an empty string the behaviour is undefined: a
\* checked build stops the process, an unchecked one goes on with a string
\* whose size and content are whatever the underflow left.
StringPrintf_188(t) ==
    /\ At(t, "StringPrintf_188")
    /\ IF Len(result[FrameOf(t)]) > 0
       THEN /\ result' = [result EXCEPT ![FrameOf(t)] = SubSeq(@, 1, Len(@) - 1)]
            /\ Goto(t, "StringPrintf_190")
       ELSE \/ /\ \E g \in GarbageStrings :
                     result' = [result EXCEPT ![FrameOf(t)] = g]
               /\ Goto(t, "StringPrintf_190")
            \/ /\ Terminate(t)
               /\ UNCHANGED result
    /\ UNCHANGED <<length, failed, hexVars, resVars, platVars>>

\* return result;
StringPrintf_190(t) ==
    /\ At(t, "StringPrintf_190")
    /\ ReturnToCaller(t, result[FrameOf(t)])
    /\ UNCHANGED <<hexVars, fmtVars, resVars, platVars>>

-----------------------------------------------------------------------------
(* LoadString of the platform, and LoadStringResource, lines 147-165 *)

\* The position in the section of the length unit of entry 'id', counting
\* from the entry at 'off'; 0 when the section ends before it.
RECURSIVE EntryOffset(_, _, _)
EntryOffset(sec, id, off) ==
    IF off > Len(sec) THEN 0
    ELSE IF id = 0 THEN off
    ELSE EntryOffset(sec, id - 1, off + 1 + sec[off])

\* ::LoadString(hInstance, stringId, (wchar_t*)&buffer, 0): with a buffer
\* size of 0 it stores a pointer to the resource itself and returns its
\* length; it returns 0 when the module or the string does not exist.
LoadString(hInstance, stringId, sec) ==
    LET off == EntryOffset(sec, stringId, 1)
    IN  IF hInstance # "module" \/ off = 0 \/ sec[off] = 0
        THEN [len |-> 0, ptr |-> 0]
        ELSE [len |-> sec[off], ptr |-> off + 1]

CallLoadStringResource(t, inputs) ==
    /\ At(t, "idle")
    /\ \E a \in inputs :
        /\ Enter(t, "LoadStringResource", a, "LoadStringResource_151")
        /\ buffer' = [buffer EXCEPT ![t] = 0]
        /\ UNCHANGED <<len, hexVars, fmtVars, platVars>>

\* const int len = ::LoadString(hInstance, stringId, ..., 0);
LoadStringResource_151(t) ==
    /\ At(t, "LoadStringResource_151")
    /\ LET r == LoadString(arg[t].hInstance, arg[t].stringId, section)
       IN  /\ len' = [len EXCEPT ![t] = r.len]
           /\ buffer' = [buffer EXCEPT ![t] = IF r.len > 0 THEN r.ptr ELSE @]
    /\ Goto(t, "LoadStringResource_157")
    /\ UNCHANGED <<hexVars, fmtVars, platVars>>

\* The code units from 'first' up to the first NUL or the end of the memory.
RECURSIVE CString(_, _)
CString(mem, first) ==
    IF first > Len(mem) \/ mem[first] = 0 THEN <<>>
    ELSE <<mem[first]>> \o CString(mem, first + 1)

LoadStringResource_157_CString(t) ==
    /\ At(t, "LoadStringResource_157")
    /\ IF len[t] # 0
       THEN ReturnToCaller(t, CString(section, buffer[t]))
       ELSE ReturnToCaller(t, <<>>)
    /\ UNCHANGED <<hexVars, fmtVars, resVars, platVars>>

\* if (len) return std::wstring(buffer, len); else return std::wstring();
LoadStringResource_157(t) ==
    /\ At(t, "LoadStringResource_157")
    /\ IF len[t] # 0
       THEN ReturnToCaller(t, WString(section, buffer[t], len[t]))
       ELSE ReturnToCaller(t, <<>>)
    /\ UNCHANGED <<hexVars, fmtVars, resVars, platVars>>

-----------------------------------------------------------------------------
(* Inputs of the hex formatters *)

\* Words the double-word inputs are built from: the words of the values the
\* repository's tests use, and the extremes.
WordSamples ==
    {0, 1, 14, 87, 4660, 16389, 22136, 32767, 32768, 32772, 32775,
     43981, 61355, 65534, 65535}

DwordSamples == {[hi |-> h, lo |-> l] : h \in WordSamples, l \in WordSamples}

\* The signed 32-bit value with the bits of dw.
AsHResult(dw) ==
    IF dw.hi >= 32768 THEN (dw.hi - 65536) * 65536 + dw.lo
    ELSE dw.hi * 65536 + dw.lo

HResultSamples == {AsHResult(dw) : dw \in DwordSamples}

S_OK == 0
E_FAIL == -2147467259
E_INVALIDARG == -2147024809
E_OUTOFMEMORY == -2147024882

-----------------------------------------------------------------------------
(* The hex formatters, called one at a time with every input *)

InitHex == InitCalls({1}) /\ InitPlatform({<<>>})

NextHex ==
    \/ \E t \in Threads : CallFormatByte(t, BYTE, JunkUnits)
    \/ \E t \in Threads : FormatByte_109(t)
    \/ \E t \in Threads : FormatByte_110(t)
    \/ \E t \in Threads : FormatByte_112(t)
    \/ \E t \in Threads : CallFormatWord(t, WORD, JunkUnits)
    \/ \E t \in Threads : FormatWord_121(t)
    \/ \E t \in Threads : FormatWord_122(t)
    \/ \E t \in Threads : FormatWord_125(t)
    \/ \E t \in Threads : FormatWord_126(t)
    \/ \E t \in Threads : FormatWord_128(t)
    \/ \E t \in Threads : CallFormatDword(t, DwordSamples)
    \/ \E t \in Threads : CallFormatHResult(t, HResultSamples)
    \/ \E t \in Threads : FormatDword_137_operand(t, JunkUnits)
    \/ \E t \in Threads : FormatDword_137_concat(t)

SpecHex == InitHex /\ [][NextHex]_vars

-----------------------------------------------------------------------------
(* Properties of the hex formatters *)

\* The sixteen digits of the "%X" conversion.
UpperHexDigits == <<48, 49, 50, 51, 52, 53, 54, 55, 56, 57, 65, 66, 67, 68, 69, 70>>

HexChars == {UpperHexDigits[i] : i \in 1 .. 16}

\* The "%0kX" rendering of n: its k least significant base-16 digits, most
\* significant first.
RECURSIVE RefHex(_, _)
RefHex(n, k) ==
    IF k = 0 THEN <<>>
    ELSE RefHex(n \div 16, k - 1) \o <<UpperHexDigits[(n % 16) + 1]>>

\* The call of thread t has returned from 'o'.
Returned(t, o) == status[t] = "returned" /\ op[t] = o

\* C1: for every byte b, FormatByte(b) is 2 characters of 0123456789ABCDEF and
\* is the "%02X" rendering of b: the digit of b >> 4, then the digit of b & 0x0F.
C1_FormatByte ==
    \A t \in Threads : Returned(t, "FormatByte") =>
        /\ Len(ret[t]) = 2
        /\ \A i \in 1 .. 2 : ret[t][i] \in HexChars
        /\ ret[t] = RefHex(arg[t], 2)
        /\ ret[t][1] = UpperHexDigits[(arg[t] \div 16) + 1]
        /\ ret[t][2] = UpperHexDigits[(arg[t] % 16) + 1]

\* FormatByte(0xAB) has returned "AB".
C1_Witness ==
    \E t \in Threads :
        Returned(t, "FormatByte") /\ arg[t] = 171 /\ ret[t] = <<65, 66>>

\* C2: for every word w in 0..65535, FormatWord(w) has length 4 and is
\* FormatByte(w >> 8) followed by FormatByte(w & 0x00FF), the "%04X" rendering.
C2_FormatWord ==
    \A t \in Threads : Returned(t, "FormatWord") =>
        /\ Len(ret[t]) = 4
        /\ ret[t] = FormatByte(arg[t] \div 256) \o FormatByte(arg[t] % 256)
        /\ ret[t] = RefHex(arg[t], 4)

\* FormatWord(0xABCD), a word above 255, has returned "ABCD".
C2_Witness ==
    \E t \in Threads :
        Returned(t, "FormatWord") /\ arg[t] = 43981 /\ ret[t] = <<65, 66, 67, 68>>

\* C3: for every double word dw, FormatDword(dw) has length 8 and is
\* FormatWord(dw >> 16) followed by FormatWord(dw & 0xFFFF), the "%08X"
\* rendering, the high word's text first.
C3_FormatDword ==
    \A t \in Threads : Returned(t, "FormatDword") =>
        /\ Len(ret[t]) = 8
        /\ ret[t] = FormatWord(arg[t].hi) \o FormatWord(arg[t].lo)
        /\ ret[t] = RefHex(arg[t].hi, 4) \o RefHex(arg[t].lo, 4)

\* FormatDword(0x12345678) has returned "12345678".
C3_Witness ==
    \E t \in Threads :
        /\ Returned(t, "FormatDword")
        /\ arg[t] = [hi |-> 4660, lo |-> 22136]
        /\ ret[t] = <<49, 50, 51, 52, 53, 54, 55, 56>>

\* hr mod 2^32 as limbs, without dividing a negative number.
Mod2to32(hr) ==
    IF hr >= 0
    THEN [hi |-> hr \div 65536, lo |-> hr % 65536]
    ELSE LET m == (hr + 2147483647) + 1
         IN  [hi |-> 32768 + (m \div 65536), lo |-> m % 65536]

\* C4: for every signed 32-bit hr, FormatHResult(hr) is FormatDword(hr mod 2^32),
\* 8 uppercase hex characters; S_OK gives "00000000", E_INVALIDARG "80070057".
C4_FormatHResult ==
    \A t \in Threads : Returned(t, "FormatHResult") =>
        /\ ret[t] = FormatDword(Mod2to32(arg[t]))
        /\ ret[t] = RefHex(Mod2to32(arg[t]).hi, 4) \o RefHex(Mod2to32(arg[t]).lo, 4)
        /\ Len(ret[t]) = 8
        /\ \A i \in 1 .. 8 : ret[t][i] \in HexChars
        /\ (arg[t] = S_OK => ret[t] = <<48, 48, 48, 48, 48, 48, 48, 48>>)
        /\ (arg[t] = E_INVALIDARG => ret[t] = <<56, 48, 48, 55, 48, 48, 53, 55>>)

\* FormatHResult(E_INVALIDARG), a negative code, has returned "80070057".
C4_Witness ==
    \E t \in Threads :
        /\ Returned(t, "FormatHResult")
        /\ arg[t] = E_INVALIDARG
        /\ arg[t] < 0
        /\ ret[t] = <<56, 48, 48, 55, 48, 48, 53, 55>>

-----------------------------------------------------------------------------
(* StringPrintf, called with every template of the model *)

Formats(n) == UNION {[1 .. k -> FormatUnits] : k \in 0 .. n}

\* The strings passed for "%s": "", "H" and "Hi".
ArgStrings == {<<>>, <<72>>, <<72, 105>>}

\* A template with as many string arguments as it consumes (the caller's
\* obligation).
PrintfInputs(n) ==
    UNION {{[format |-> f, args |-> a] :
                a \in [1 .. NumConversions(f) -> ArgStrings]} : f \in Formats(n)}

InitPrintf == InitCalls({1}) /\ InitPlatform({<<>>})

NextPrintf ==
    \/ \E t \in Threads : CallStringPrintf(t, PrintfInputs(MaxFormatLen))
    \/ \E t \in Threads : StringPrintf_174(t)
    \/ \E t \in Threads : StringPrintf_179(t)
    \/ \E t \in Threads : StringPrintf_183(t)
    \/ \E t \in Threads : StringPrintf_188(t)
    \/ \E t \in Threads : StringPrintf_190(t)

SpecPrintf == InitPrintf /\ [][NextPrintf]_vars

\* The rendering of the call of thread t.
Rendering(t) == Render(arg[t].format, arg[t].args)

\* C5: when the rendering succeeds, StringPrintf returns exactly the rendered
\* text: no truncation, no terminator in it, and its length is the length the
\* measure pass gave.
C5_StringPrintfExact ==
    \A t \in Threads : (op[t] = "StringPrintf" /\ Rendering(t).ok) =>
        /\ status[t] # "fatal"
        /\ status[t] = "returned" =>
              /\ ret[t] = Rendering(t).text
              /\ Len(ret[t]) = VscwPrintf(arg[t].format, arg[t].args)
              /\ Len(ret[t]) = length[t] - 1
              /\ \A i \in 1 .. Len(ret[t]) : ret[t][i] # 0

\* StringPrintf("%s!", "Hi") has returned "Hi!".
C5_Witness ==
    \E t \in Threads :
        /\ Returned(t, "StringPrintf")
        /\ arg[t] = [format |-> <<37, 115, 33>>, args |-> << <<72, 105>> >>]
        /\ ret[t] = <<72, 105, 33>>

\* C6: StringPrintf ends in a fatal condition if and only if a primitive
\* reported a failure; in every other case it returns a result.
C6_FatalIffPrimitiveFailed ==
    \A t \in Threads : (op[t] = "StringPrintf" /\ pc[t] \in {"done", "terminated"}) =>
        (status[t] = "fatal" <=> failed[t])

\* C7: when the rendering is empty, the measure pass gives 0, one unit is
\* reserved, the render writes only the terminator, the trim leaves length 0,
\* and the call returns the empty string without failing.
C7_EmptyRendering ==
    \A t \in Threads :
        (op[t] = "StringPrintf" /\ Rendering(t).ok /\ Rendering(t).text = <<>>) =>
            /\ status[t] # "fatal"
            /\ ~failed[t]
            /\ pc[t] \in {"StringPrintf_179", "StringPrintf_183"} => length[t] = 1
            /\ pc[t] = "StringPrintf_183" => Len(result[FrameOf(t)]) = 1
            /\ pc[t] = "StringPrintf_188" => result[FrameOf(t)] = <<0>>
            /\ pc[t] = "StringPrintf_190" => result[FrameOf(t)] = <<>>
            /\ status[t] = "returned" => ret[t] = <<>>

\* StringPrintf("") has returned "".
C7_Witness ==
    \E t \in Threads :
        /\ Returned(t, "StringPrintf")
        /\ arg[t] = [format |-> <<>>, args |-> <<>>]
        /\ ret[t] = <<>>

\* C10: whatever the measure pass returned, the size handed to the render
\* primitive does not exceed the units reserved in the result string, and the
\* destination has at least one reserved unit.
C10_RenderWithinReserved ==
    \A t \in Threads : pc[t] = "StringPrintf_183" =>
        /\ length[t] <= Len(result[FrameOf(t)])
        /\ Len(result[FrameOf(t)]) >= 1

-----------------------------------------------------------------------------
(* LoadStringResource, called with every module handle and string id *)

\* The texts a string table of the model holds: "", "T" and "Te".
ResourceTexts == {<<>>, <<84>>, <<84, 101>>}

StringTables(n) == [1 .. n -> ResourceTexts]

\* A loaded module or a handle that names none; an id of the table or the
\* first one past it.
ResourceInputs(n) ==
    {[hInstance |-> h, stringId |-> i] : h \in {"module", "invalid"}, i \in 0 .. n}

InitResource == InitCalls({1}) /\ InitPlatform(StringTables(NumStrings))

NextResource ==
    \/ \E t \in Threads : CallLoadStringResource(t, ResourceInputs(NumStrings))
    \/ \E t \in Threads : LoadStringResource_151(t)
    \/ \E t \in Threads : LoadStringResource_157(t)

SpecResource == InitResource /\ [][NextResource]_vars

\* The text the table stores for the call of thread t, if it stores one.
Stored(t) ==
    IF arg[t].hInstance = "module" /\ arg[t].stringId < Len(table)
    THEN table[arg[t].stringId + 1]
    ELSE <<>>

\* C8: LoadStringResource signals no error; it returns the empty string when
\* the lookup misses (the platform reports length 0) and otherwise exactly the
\* stored text, of the length the platform reported.
C8_LoadStringResource ==
    \A t \in Threads : op[t] = "LoadStringResource" =>
        /\ status[t] # "fatal"
        /\ status[t] = "returned" =>
              /\ ret[t] = Stored(t)
              /\ Len(ret[t]) = len[t]
              /\ len[t] = 0 => ret[t] = <<>>

\* A string followed in the section by another one has been returned whole.
C8_Witness ==
    \E t \in Threads :
        /\ Returned(t, "LoadStringResource")
        /\ arg[t] = [hInstance |-> "module", stringId |-> 0]
        /\ table = << <<84>>, <<84, 101>> >>
        /\ ret[t] = <<84>>

-----------------------------------------------------------------------------
(* The formatters, called concurrently *)

ConcBytes == {171, 5}
ConcWords == {4660}
ConcDwords == {[hi |-> 4660, lo |-> 22136]}
ConcHResults == {E_INVALIDARG}
ConcPrintfInputs ==
    {[format |-> <<>>, args |-> <<>>],
     [format |-> <<37, 115>>, args |-> << <<72, 105>> >>],
     [format |-> <<37, 33>>, args |-> <<>>]}
ConcJunk == {52428}

InitConc == InitCalls(1 .. NumThreads) /\ InitPlatform({<<>>})

NextConc ==
    \/ \E t \in Threads : CallFormatByte(t, ConcBytes, ConcJunk)
    \/ \E t \in Threads : FormatByte_109(t)
    \/ \E t \in Threads : FormatByte_110(t)
    \/ \E t \in Threads : FormatByte_112(t)
    \/ \E t \in Threads : CallFormatWord(t, ConcWords, ConcJunk)
    \/ \E t \in Threads : FormatWord_121(t)
    \/ \E t \in Threads : FormatWord_122(t)
    \/ \E t \in Threads : FormatWord_125(t)
    \/ \E t \in Threads : FormatWord_126(t)
    \/ \E t \in Threads : FormatWord_128(t)
    \/ \E t \in Threads : CallFormatDword(t, ConcDwords)
    \/ \E t \in Threads : CallFormatHResult(t, ConcHResults)
    \/ \E t \in Threads : FormatDword_137_operand(t, ConcJunk)
    \/ \E t \in Threads : FormatDword_137_concat(t)
    \/ \E t \in Threads : CallStringPrintf(t, ConcPrintfInputs)
    \/ \E t \in Threads : StringPrintf_174(t)
    \/ \E t \in Threads : StringPrintf_179(t)
    \/ \E t \in Threads : StringPrintf_183(t)
    \/ \E t \in Threads : StringPrintf_188(t)
    \/ \E t \in Threads : StringPrintf_190(t)

SpecConc == InitConc /\ [][NextConc]_vars

\* What the call 'o'(a) can return when it runs with no other call.
ResultsAlone(o, a) ==
    CASE o = "FormatByte" -> {FormatByte(a)}
      [] o = "FormatWord" -> {FormatWord(a)}
      [] o = "FormatDword" -> {FormatDword(a)}
      [] o = "FormatHResult" -> {FormatHResult(a)}
      [] o = "StringPrintf" ->
            IF Render(a.format, a.args).ok
            THEN {Render(a.format, a.args).text}
            ELSE GarbageStrings

\* C9: under every interleaving of the concurrent calls, each call that
\* returns has returned what it returns when run alone.
C9_NoInterference ==
    \A t \in Threads :
        status[t] = "returned" => ret[t] \in ResultsAlone(op[t], arg[t])

\* A call has returned its own result while another call, with another
\* argument, was in the middle of filling its buffer.
C9_Witness ==
    \E t, u \in Threads :
        /\ t # u
        /\ Returned(t, "FormatByte") /\ arg[t] = 171 /\ ret[t] = <<65, 66>>
        /\ op[u] = "FormatByte" /\ arg[u] = 5 /\ pc[u] = "FormatByte_110"

====
